---------------------------- MODULE Spec2Model ----------------------------
(***************************************************************************)
(* Model of the image-filter engine of rusty_nfts_rust (src/lib.rs).       *)
(*                                                                         *)
(* apply_filter decodes an image into an RGBA8 buffer, dispatches on the   *)
(* filter name (one match arm per name), and PNG-encodes the result.  A    *)
(* buffer is a record [width, height, px] whose px maps <<x, y>> to a      *)
(* pixel <<R, G, B, A>>; channel c of the source (0..3) is component c+1.  *)
(***************************************************************************)
EXTENDS Integers, Sequences, FiniteSets

VARIABLES
    pc,             \* position in apply_filter: "match", "encode", "return"
    filter_type,    \* the filter name passed by the host
    img,            \* the decoded RGBA8 input buffer (lib.rs line 21)
    resized_img,    \* the intermediate buffer of the pixelate arm (line 52)
    processed_img,  \* the buffer the match produced (line 24)
    prev_img,       \* host side: the input of the previous invocation
    calls           \* host side: number of invocations so far

vars == <<pc, filter_type, img, resized_img, processed_img, prev_img, calls>>

-----------------------------------------------------------------------------
(* Bounds of the model. *)

MaxW == 4          \* widths of the small input buffers: 1..MaxW
MaxH == 4          \* heights of the small input buffers: 1..MaxH
NPal == 4          \* number of palette colours the input buffers use
MaxStride == 1     \* pattern strides 0..MaxStride in x and in y
MaxCalls == 2      \* how often the host applies the filter in succession
MaxBlocks == 2     \* large buffers for pixelate: up to MaxBlocks*10 + 9 wide

\* Pixel values the input buffers are built from.  They cover: opaque white,
\* a transparent pixel, the sepia sample, channel values around the
\* posterize steps, and alphas outside {0, 85, 170, 255}.
Palette ==
    << <<255, 255, 255, 255>>,
       <<0, 113, 27, 0>>,
       <<200, 150, 100, 255>>,
       <<84, 170, 254, 128>>,
       <<86, 169, 85, 64>>,
       <<12, 240, 171, 200>> >>

\* Filter names the host may pass: the nine recognized tokens and some that
\* differ from them in case, by whitespace, or altogether.
RecognizedNames ==
    {"grayscale", "blur", "huerotate", "invert", "sepia", "pixelate",
     "emboss", "sharpen", "posterize"}

OtherNames == {"Sepia", "INVERT", "sharpen ", "", "none"}

FilterNames == RecognizedNames \cup OtherNames

-----------------------------------------------------------------------------
(* Buffers *)

Coords(w, h) == (0 .. w - 1) \X (0 .. h - 1)

ZeroPixel == <<0, 0, 0, 0>>

\* RgbaImage::new(width, height): every channel zero-initialised.
Blank(w, h) ==
    [width |-> w, height |-> h, px |-> [p \in Coords(w, h) |-> ZeroPixel]]

NoBuffer == Blank(0, 0)

\* An input buffer: pixel (x, y) is palette colour (a*x + b*y + c) mod NPal.
Pattern(w, h, a, b, c) ==
    [width |-> w, height |-> h,
     px |-> [p \in Coords(w, h) |->
                Palette[((a * p[1] + b * p[2] + c) % NPal) + 1]]]

Uniform(w, h, c) == Pattern(w, h, 0, 0, c)

SmallImages ==
    { Pattern(w, h, a, b, c) :
        w \in 1 .. MaxW, h \in 1 .. MaxH,
        a \in 0 .. MaxStride, b \in 0 .. MaxStride, c \in 0 .. NPal - 1 }

\* Buffers large enough for the pixelate arm to keep blocks: each side is
\* 10*k + r for k up to MaxBlocks.
PixWidths == { 10 * k + r : k \in 0 .. MaxBlocks, r \in {0, 2} } \ {0}
PixHeights == { 10 * k + r : k \in 0 .. MaxBlocks, r \in {0, 5} } \ {0}

LargeImages ==
    { Pattern(w, h, a, b, c) :
        w \in PixWidths, h \in PixHeights,
        a \in 0 .. MaxStride, b \in 0 .. MaxStride, c \in 0 .. NPal - 1 }

Min(a, b) == IF a < b THEN a ELSE b
Max(a, b) == IF a > b THEN a ELSE b

-----------------------------------------------------------------------------
(* The convolution engine, lib.rs lines 83-151 *)

\* f32::clamp(lo, hi) followed by `as u8`; the sums are whole numbers, every
\* product and partial sum being an integer below 2^24, exact in f32.
Clamp(v, lo, hi) == IF v < lo THEN lo ELSE IF v > hi THEN hi ELSE v

EmbossKernel ==
    << <<-2, -1, 0>>,
       <<-1,  1, 1>>,
       << 0,  1, 2>> >>

SharpenKernel ==
    << << 0, -1,  0>>,
       <<-1,  5, -1>>,
       << 0, -1,  0>> >>

SharpenKernelWeak ==
    << << 0, -1,  0>>,
       <<-1,  4, -1>>,
       << 0, -1,  0>> >>

\* The accumulation of lines 121-135 for channel c of pixel (x, y), kernel
\* cells visited in the order ky = 0..2, kx = 0..2 (cell k = 3*ky + kx).
RECURSIVE ConvAcc(_, _, _, _, _, _)
ConvAcc(src, kernel, x, y, c, k) ==
    IF k = 9 THEN 0
    ELSE LET ky == k \div 3
             kx == k % 3
             ppx == src.px[<<x + kx - 1, y + ky - 1>>]
         IN  kernel[ky + 1][kx + 1] * ppx[c + 1]
               + ConvAcc(src, kernel, x, y, c, k + 1)

ConvPixel(src, kernel, x, y) ==
    << Clamp(ConvAcc(src, kernel, x, y, 0, 0), 0, 255),
       Clamp(ConvAcc(src, kernel, x, y, 1, 0), 0, 255),
       Clamp(ConvAcc(src, kernel, x, y, 2, 0), 0, 255),
       Clamp(ConvAcc(src, kernel, x, y, 3, 0), 0, 255) >>

\* Mutant: the output buffer holds only the pixels the kernel fits on.
apply_convolution_valid(src, kernel) ==
    Blank(Max(src.width - 2, 0), Max(src.height - 2, 0))

\* Mutant: the output buffer starts as a copy of the source.
apply_convolution_clone(src, kernel) ==
    [src EXCEPT !.px =
        [p \in Coords(src.width, src.height) |->
            IF /\ 1 <= p[2] /\ p[2] < src.height - 1
               /\ 1 <= p[1] /\ p[1] < src.width - 1
            THEN ConvPixel(src, kernel, p[1], p[2])
            ELSE src.px[p]]]

apply_convolution(src, kernel) ==
    LET width == src.width
        height == src.height
        output == Blank(width, height)
    IN  [output EXCEPT !.px =
            [p \in Coords(width, height) |->
                IF /\ 1 <= p[2] /\ p[2] < height - 1
                   /\ 1 <= p[1] /\ p[1] < width - 1
                THEN ConvPixel(src, kernel, p[1], p[2])
                ELSE output.px[p]]]

apply_emboss(src) == apply_convolution(src, EmbossKernel)

apply_sharpen_weak(src) == apply_convolution(src, SharpenKernelWeak)

apply_sharpen(src) == apply_convolution(src, SharpenKernel)

-----------------------------------------------------------------------------
(* Single-precision arithmetic of apply_sepia, lib.rs lines 160-167        *)
(*                                                                         *)
(* A non-negative f32 value below 512 is held as <<I, F>>: I + F / 2^26.   *)
(* Every value that occurs (a coefficient times a channel, and the sums)   *)
(* is zero or at least 0.131, so its unit in the last place is a multiple  *)
(* of 2^-26 and the pair holds it exactly.  Each operation computes the    *)
(* exact result and rounds it to 24 significant bits, ties to even.        *)

FracUnits == 2 ^ 26
HalfSplit == 2 ^ 13
MantissaLow == 2 ^ 23

\* The f32 nearest to each literal of lines 165-167, in units of 2^-26.
C393 == 26373784
C769 == 51606716
C189 == 12683575
C349 == 23420994
C686 == 46036680
C168 == 11274289
C272 == 18253612
C534 == 35836132
C131 == 8791261

RECURSIVE Pow2Floor(_)
Pow2Floor(n) == IF n < 2 THEN 1 ELSE 2 * Pow2Floor(n \div 2)

\* The unit in the last place of the value <<I, F>>, in units of 2^-26.
Ulp(v) ==
    IF v[1] >= 1 THEN 8 * Pow2Floor(v[1])
    ELSE Max(1, Pow2Floor(v[2]) \div MantissaLow)

Normalize(i, f) == <<i + f \div FracUnits, f % FracUnits>>

RoundF32(v) ==
    LET u == Ulp(v)
        q == v[2] \div u
        r == v[2] % u
        up == IF 2 * r > u THEN 1
              ELSE IF 2 * r < u THEN 0
              ELSE q % 2
    IN  Normalize(v[1], (q + up) * u)

\* coefficient (units of 2^-26) times a channel value n in 0..255
F32Mul(cu, n) ==
    LET hi == cu \div HalfSplit
        lo == cu % HalfSplit
        t == hi * n
    IN  RoundF32(Normalize(t \div HalfSplit, (t % HalfSplit) * HalfSplit + lo * n))

F32Add(a, b) == RoundF32(Normalize(a[1] + b[1], a[2] + b[2]))

\* (x).min(255.0) as u8: the cast truncates toward zero.
MinCastU8(v) == IF v[1] >= 255 THEN 255 ELSE v[1]

\* Mutant: the sum rounded to the nearest integer instead of truncated.
SepiaChannelRounded(k1, k2, k3, red, green, blue) ==
    LET s == F32Add(F32Add(F32Mul(k1, red), F32Mul(k2, green)), F32Mul(k3, blue))
    IN  MinCastU8(Normalize(s[1], s[2] + FracUnits \div 2))

\* (k1 * red + k2 * green + k3 * blue).min(255.0) as u8
SepiaChannel(k1, k2, k3, red, green, blue) ==
    MinCastU8(F32Add(F32Add(F32Mul(k1, red), F32Mul(k2, green)), F32Mul(k3, blue)))

SepiaPixel(pixel) ==
    LET red == pixel[1]
        green == pixel[2]
        blue == pixel[3]
        tr == SepiaChannel(C393, C769, C189, red, green, blue)
        tg == SepiaChannel(C349, C686, C168, red, green, blue)
        tb == SepiaChannel(C272, C534, C131, red, green, blue)
    IN  <<tr, tg, tb, pixel[4]>>

apply_sepia(src) ==
    [src EXCEPT !.px = [p \in DOMAIN src.px |-> SepiaPixel(src.px[p])]]

-----------------------------------------------------------------------------
(* apply_posterize, lib.rs lines 179-199 *)

PosterizeLevels == 4

\* Mutant: the step taken as 255 / levels.
apply_posterize_step(src, levels) ==
    LET step == 255 \div levels
    IN  [src EXCEPT !.px = [p \in DOMAIN src.px |->
            << ((src.px[p][1] \div step) * step) % 256,
               ((src.px[p][2] \div step) * step) % 256,
               ((src.px[p][3] \div step) * step) % 256,
               src.px[p][4] >>]]

\* u8 arithmetic: (v / step) * step never exceeds v, so it cannot overflow.
apply_posterize(src, levels) ==
    LET step == 255 \div (levels - 1)
    IN  [src EXCEPT !.px = [p \in DOMAIN src.px |->
            << (src.px[p][1] \div step) * step,
               (src.px[p][2] \div step) * step,
               (src.px[p][3] \div step) * step,
               src.px[p][4] >>]]

-----------------------------------------------------------------------------
(* Primitives of the image crate the match arms call *)

\* Rgba<u8>::to_luma: (2126 R + 7152 G + 722 B) / 10000 in integers.
Luma(pixel) == (2126 * pixel[1] + 7152 * pixel[2] + 722 * pixel[3]) \div 10000

\* imageops::grayscale: a one-channel buffer of the same size.
grayscale(src) ==
    [width |-> src.width, height |-> src.height,
     px |-> [p \in DOMAIN src.px |-> <<Luma(src.px[p])>>]]

\* Mutant: the colour channels inverted and the alpha dropped (set opaque).
InvertPixelOpaque(pixel) ==
    <<255 - pixel[1], 255 - pixel[2], 255 - pixel[3], 255>>

\* Rgba<u8>::invert: the colour channels become max - v, alpha is kept.
InvertPixel(pixel) ==
    <<255 - pixel[1], 255 - pixel[2], 255 - pixel[3], pixel[4]>>

\* imageops::invert, in place on the clone.
invert(src) ==
    [src EXCEPT !.px = [p \in DOMAIN src.px |-> InvertPixel(src.px[p])]]

\* Nearest-neighbour sampling of imageops::resize (support 0): destination
\* index `out` reads the source index floor((out + 0.5) * src_len / dst_len),
\* clamped into the source.  The crate computes the product in f32; for
\* every length below 41 the f32 result has the same floor as the exact one.
SrcIndex(out, src_len, dst_len) ==
    Clamp(((2 * out + 1) * src_len) \div (2 * dst_len), 0, src_len - 1)

\* imageops::resize(src, nwidth, nheight, FilterType::Nearest): a source with
\* nothing to sample from gives a zero-initialised buffer of the new size
\* (image 0.24 and later).  For equal sizes the crate copies the source,
\* which is what SrcIndex gives as well.
resize(src, nwidth, nheight) ==
    IF src.width = 0 \/ src.height = 0 THEN Blank(nwidth, nheight)
    ELSE [width |-> nwidth, height |-> nheight,
          px |-> [p \in Coords(nwidth, nheight) |->
                    src.px[<<SrcIndex(p[1], src.width, nwidth),
                             SrcIndex(p[2], src.height, nheight)>>]]]

\* blur and huerotate return a buffer of the size of their input.  Their
\* pixel values are the crate's and are not modelled: the model draws them
\* from the palette.
LibraryResults(src) ==
    { [src EXCEPT !.px = [p \in DOMAIN src.px |-> Palette[c]]] : c \in 1 .. NPal }

-----------------------------------------------------------------------------
(* The match arms of apply_filter, lib.rs lines 24-62 *)

\* Mutant: the match compares the names ignoring case.
MatchArmIgnoreCase(name) ==
    IF name \in RecognizedNames THEN name
    ELSE IF name = "Sepia" THEN "sepia"
    ELSE IF name = "INVERT" THEN "invert"
    ELSE "_"

\* Which arm a filter name selects: string patterns match exactly.
MatchArm(name) == IF name \in RecognizedNames THEN name ELSE "_"

\* Mutant: the source alpha carried over.
GrayscaleArmKeepAlpha(src) ==
    LET gray_img == grayscale(src)
    IN  [width |-> gray_img.width, height |-> gray_img.height,
         px |-> [p \in Coords(gray_img.width, gray_img.height) |->
                    LET luma == gray_img.px[p][1]
                    IN  <<luma, luma, luma, src.px[p][4]>>]]

\* lines 25-36
GrayscaleArm(src) ==
    LET gray_img == grayscale(src)
    IN  [width |-> gray_img.width, height |-> gray_img.height,
         px |-> [p \in Coords(gray_img.width, gray_img.height) |->
                    LET luma == gray_img.px[p][1]
                    IN  <<luma, luma, luma, 255>>]]

\* lines 41-47
InvertArm(src) == LET img_clone == src IN invert(img_clone)

PixelateFactor == 10

\* Mutant: the width divided for both sides of the intermediate buffer.
PixelateDownSquare(src) ==
    resize(src, src.width \div PixelateFactor, src.width \div PixelateFactor)

\* line 52: u32 division, no lower bound on the result
PixelateDown(src) ==
    resize(src, src.width \div PixelateFactor, src.height \div PixelateFactor)

\* line 54
PixelateUp(resized, src) == resize(resized, src.width, src.height)

Arm(name) == pc = "match" /\ MatchArm(filter_type) = name

Produce(buffer) ==
    /\ processed_img' = buffer
    /\ pc' = "encode"
    /\ UNCHANGED <<filter_type, img, prev_img, calls>>

Grayscale ==
    /\ Arm("grayscale")
    /\ Produce(GrayscaleArm(img))
    /\ UNCHANGED resized_img

Blur ==
    /\ Arm("blur")
    /\ \E result \in LibraryResults(img) : Produce(result)
    /\ UNCHANGED resized_img

HueRotate ==
    /\ Arm("huerotate")
    /\ \E result \in LibraryResults(img) : Produce(result)
    /\ UNCHANGED resized_img

Invert ==
    /\ Arm("invert")
    /\ Produce(InvertArm(img))
    /\ UNCHANGED resized_img

Sepia ==
    /\ Arm("sepia")
    /\ Produce(apply_sepia(img))
    /\ UNCHANGED resized_img

Pixelate ==
    /\ Arm("pixelate")
    /\ resized_img' = PixelateDown(img)
    /\ Produce(PixelateUp(resized_img', img))

Emboss ==
    /\ Arm("emboss")
    /\ Produce(apply_emboss(img))
    /\ UNCHANGED resized_img

Sharpen ==
    /\ Arm("sharpen")
    /\ Produce(apply_sharpen(img))
    /\ UNCHANGED resized_img

Posterize ==
    /\ Arm("posterize")
    /\ Produce(apply_posterize(img, PosterizeLevels))
    /\ UNCHANGED resized_img

\* line 61: `_ => img`
Unrecognized ==
    /\ Arm("_")
    /\ Produce(img)
    /\ UNCHANGED resized_img

\* lines 64-75: the PNG encoding keeps every pixel; the bytes are returned.
Encode ==
    /\ pc = "encode"
    /\ pc' = "return"
    /\ UNCHANGED <<filter_type, img, resized_img, processed_img, prev_img, calls>>

\* The host passes the returned image to apply_filter again, with the same
\* filter name (lines 18-21: decoding gives back the encoded pixels).
Reapply ==
    /\ pc = "return"
    /\ calls < MaxCalls
    /\ prev_img' = img
    /\ img' = processed_img
    /\ processed_img' = NoBuffer
    /\ resized_img' = NoBuffer
    /\ calls' = calls + 1
    /\ pc' = "match"
    /\ UNCHANGED filter_type

Start(images, names) ==
    /\ pc = "match"
    /\ img \in images
    /\ filter_type \in names
    /\ resized_img = NoBuffer
    /\ processed_img = NoBuffer
    /\ prev_img = NoBuffer
    /\ calls = 1

Init == Start(SmallImages, FilterNames)

Next ==
    \/ Grayscale
    \/ Blur
    \/ HueRotate
    \/ Invert
    \/ Sepia
    \/ Pixelate
    \/ Emboss
    \/ Sharpen
    \/ Posterize
    \/ Unrecognized
    \/ Encode
    \/ Reapply

Spec == Init /\ [][Next]_vars

PixInit == Start(LargeImages, {"pixelate"})

PixNext == Pixelate \/ Encode

PixSpec == PixInit /\ [][PixNext]_vars

\* Every filter on the small and on the large buffers.
WideInit == Init \/ PixInit

WideSpec == WideInit /\ [][Next]_vars

-----------------------------------------------------------------------------
(* Properties *)

Dispatched == pc \in {"encode", "return"}

Returned(name) == pc = "return" /\ filter_type = name

Border(p, w, h) == p[1] = 0 \/ p[1] = w - 1 \/ p[2] = 0 \/ p[2] = h - 1

\* C1: whatever the filter name, the buffer the dispatcher produced has the
\* width and the height of the input buffer, one pixel per coordinate.
C1_DimensionsPreserved ==
    Dispatched =>
        /\ processed_img.width = img.width
        /\ processed_img.height = img.height
        /\ DOMAIN processed_img.px = Coords(img.width, img.height)

\* C1 witness: pixelate returned on a buffer less than 10 wide.
C1_Witness ==
    /\ Returned("pixelate")
    /\ img.width < 10 /\ img.height >= 10
    /\ processed_img.width = img.width
    /\ processed_img.height = img.height

\* C2: a name that is not exactly (case included) one of the nine tokens
\* gives back the decoded input: the same size, and every pixel equal in all
\* four channels.  The dispatcher has no error outcome.
C2_UnknownPassthrough ==
    (Dispatched /\ filter_type \notin
        {"grayscale", "blur", "huerotate", "invert", "sepia", "pixelate",
         "emboss", "sharpen", "posterize"})
    => /\ processed_img = img
       /\ \A p \in Coords(img.width, img.height) : processed_img.px[p] = img.px[p]

\* C2 witness: "Sepia" (capitalised) returned the input, which the sepia
\* filter would have changed.
C2_Witness ==
    /\ Returned("Sepia")
    /\ processed_img = img
    /\ \E p \in DOMAIN img.px : SepiaPixel(img.px[p]) # img.px[p]

\* C3: after sharpen or emboss every pixel of the outermost rows and columns
\* is (0,0,0,0), and so is every pixel when the buffer is under 3 wide or high.
C3_ConvolutionBorderZero ==
    (Dispatched /\ filter_type \in {"sharpen", "emboss"}) =>
        /\ \A p \in Coords(img.width, img.height) :
              Border(p, img.width, img.height) => processed_img.px[p] = <<0, 0, 0, 0>>
        /\ (img.width < 3 \/ img.height < 3) =>
              \A p \in Coords(img.width, img.height) :
                  processed_img.px[p] = <<0, 0, 0, 0>>

\* C3 witness: sharpen returned on a buffer with a non-zero corner and a
\* non-zero interior result.
C3_Witness ==
    /\ Returned("sharpen")
    /\ img.width >= 3 /\ img.height >= 3
    /\ img.px[<<0, 0>>] # <<0, 0, 0, 0>>
    /\ processed_img.px[<<0, 0>>] = <<0, 0, 0, 0>>
    /\ processed_img.px[<<1, 1>>] # <<0, 0, 0, 0>>

\* C4: invert applied twice in succession gives back the first input, in
\* all four channels.
C4_InvertTwice ==
    (Dispatched /\ filter_type = "invert" /\ calls >= 2) => processed_img = prev_img

\* C4 witness: the second invert returned, on a buffer whose pixels the
\* first one changed and that holds a partly transparent pixel.
C4_Witness ==
    /\ Returned("invert")
    /\ calls = 2
    /\ processed_img = prev_img
    /\ img # prev_img
    /\ \E p \in DOMAIN prev_img.px : prev_img.px[p][4] \notin {0, 255}

\* C5: after grayscale every pixel is opaque and its R, G and B are equal.
C5_GrayscaleOpaque ==
    (Dispatched /\ filter_type = "grayscale") =>
        \A p \in Coords(img.width, img.height) :
            /\ processed_img.px[p][4] = 255
            /\ processed_img.px[p][1] = processed_img.px[p][2]
            /\ processed_img.px[p][2] = processed_img.px[p][3]

\* C5 witness: grayscale returned on a buffer with a fully transparent,
\* coloured pixel.
C5_Witness ==
    /\ Returned("grayscale")
    /\ \E p \in DOMAIN img.px :
          /\ img.px[p][4] = 0
          /\ img.px[p][1] # img.px[p][2]
          /\ processed_img.px[p][4] = 255

PosterizeSteps == {0, 85, 170, 255}

\* C6 as stated: after posterize every channel, alpha included, is one of
\* 0, 85, 170, 255 and is at most the input value.
C6_AllChannelsQuantized ==
    (Dispatched /\ filter_type = "posterize") =>
        \A p \in Coords(img.width, img.height) : \A c \in 1 .. 4 :
            /\ processed_img.px[p][c] \in PosterizeSteps
            /\ processed_img.px[p][c] <= img.px[p][c]

\* C6 amended: after posterize every R, G and B value is one of 0, 85, 170,
\* 255 and at most the input value; the alpha is the input alpha.
C6_ColourChannelsQuantized ==
    (Dispatched /\ filter_type = "posterize") =>
        \A p \in Coords(img.width, img.height) :
            /\ \A c \in 1 .. 3 :
                  /\ processed_img.px[p][c] \in PosterizeSteps
                  /\ processed_img.px[p][c] <= img.px[p][c]
            /\ processed_img.px[p][4] = img.px[p][4]

\* C6 witness: posterize returned on a buffer holding (84,170,254,128).
C6_Witness ==
    /\ Returned("posterize")
    /\ \E p \in DOMAIN img.px :
          /\ img.px[p] = <<84, 170, 254, 128>>
          /\ processed_img.px[p] = <<0, 170, 170, 128>>

BlockOrigin(p) == <<(p[1] \div 10) * 10, (p[2] \div 10) * 10>>

\* Every pixel equals the first pixel of its 10x10 source-aligned block,
\* which is to say that any two pixels of a block are equal.
BlocksUniform(buffer) ==
    \A p \in Coords(buffer.width, buffer.height) :
        buffer.px[p] = buffer.px[BlockOrigin(p)]

\* C7 as stated: after pixelate, on a buffer of any size, two pixels of the
\* same 10x10 source-aligned block are equal in all four channels.
C7_BlocksUniformAnySize ==
    (Dispatched /\ filter_type = "pixelate") => BlocksUniform(processed_img)

\* C7 amended: after pixelate on a buffer whose width and height are
\* multiples of 10, two pixels of the same 10x10 source-aligned block are
\* equal in all four channels.
C7_BlocksUniformMultiplesOf10 ==
    (Dispatched /\ filter_type = "pixelate"
        /\ img.width % 10 = 0 /\ img.height % 10 = 0)
    => BlocksUniform(processed_img)

\* C7 witness: pixelate returned on a 20x20 buffer that is not uniform
\* within a block, with blocks of different colours in the result.
C7_Witness ==
    /\ Returned("pixelate")
    /\ img.width = 20 /\ img.height = 20
    /\ img.px[<<0, 0>>] # img.px[<<1, 0>>]
    /\ processed_img.px[<<0, 0>>] # processed_img.px[<<10, 0>>]
    /\ BlocksUniform(processed_img)

\* The weighted sum in thousandths, and its truncation capped at 255.
Thousandths(k1, k2, k3, pixel) == k1 * pixel[1] + k2 * pixel[2] + k3 * pixel[3]

ExactChannel(n) == Min(255, n \div 1000)

\* C8 as stated: each sepia channel is the truncation of min(255, weighted
\* sum), alpha unchanged, and (200,150,100,255) maps to (211,185,148,255).
C8_SepiaAsStated ==
    (Dispatched /\ filter_type = "sepia") =>
        \A p \in Coords(img.width, img.height) :
            /\ processed_img.px[p] =
                  << ExactChannel(Thousandths(393, 769, 189, img.px[p])),
                     ExactChannel(Thousandths(349, 686, 168, img.px[p])),
                     ExactChannel(Thousandths(272, 534, 131, img.px[p])),
                     img.px[p][4] >>
            /\ img.px[p] = <<200, 150, 100, 255>>
                  => processed_img.px[p] = <<211, 185, 148, 255>>

\* A sepia channel against the weighted sum n (in thousandths): the
\* truncation of min(255, n / 1000), or one less where n / 1000 is whole.
SepiaChannelOk(out, n) ==
    \/ out = ExactChannel(n)
    \/ n % 1000 = 0 /\ out = ExactChannel(n) - 1

\* C8 amended: each sepia channel is the truncation (never the rounding) of
\* min(255, weighted sum), the sum taken in single precision, so that a sum
\* that is a whole number in exact arithmetic may give one less; alpha is
\* unchanged; (200,150,100,255) maps to (212,189,147,255).
C8_SepiaSinglePrecision ==
    (Dispatched /\ filter_type = "sepia") =>
        \A p \in Coords(img.width, img.height) :
            /\ SepiaChannelOk(processed_img.px[p][1],
                              Thousandths(393, 769, 189, img.px[p]))
            /\ SepiaChannelOk(processed_img.px[p][2],
                              Thousandths(349, 686, 168, img.px[p]))
            /\ SepiaChannelOk(processed_img.px[p][3],
                              Thousandths(272, 534, 131, img.px[p]))
            /\ processed_img.px[p][4] = img.px[p][4]
            /\ img.px[p] = <<200, 150, 100, 255>>
                  => processed_img.px[p] = <<212, 189, 147, 255>>

\* C8 witness: sepia returned on a buffer holding the sample pixel, a pixel
\* whose red sum is exactly 92 and comes out 91, and a pixel that is capped.
C8_Witness ==
    /\ Returned("sepia")
    /\ \E p \in DOMAIN img.px :
          /\ img.px[p] = <<200, 150, 100, 255>>
          /\ processed_img.px[p] = <<212, 189, 147, 255>>
    /\ \E p \in DOMAIN img.px :
          /\ img.px[p] = <<0, 113, 27, 0>>
          /\ processed_img.px[p][1] = 91
          /\ processed_img.px[p][4] = 0
    /\ \E p \in DOMAIN img.px :
          /\ img.px[p] = <<255, 255, 255, 255>>
          /\ processed_img.px[p] = <<255, 255, 238, 255>>

S(src, x, y, c) == src.px[<<x, y>>][c]

SharpenAt(src, x, y, c) ==
    Clamp(5 * S(src, x, y, c)
            - S(src, x, y - 1, c) - S(src, x - 1, y, c)
            - S(src, x + 1, y, c) - S(src, x, y + 1, c), 0, 255)

EmbossAt(src, x, y, c) ==
    Clamp(S(src, x, y, c)
            - 2 * S(src, x - 1, y - 1, c) - S(src, x, y - 1, c) - S(src, x - 1, y, c)
            + S(src, x + 1, y, c) + S(src, x, y + 1, c)
            + 2 * S(src, x + 1, y + 1, c), 0, 255)

InteriorCoords(w, h) == (1 .. w - 2) \X (1 .. h - 2)

IsUniform(buffer) ==
    \A p \in DOMAIN buffer.px : buffer.px[p] = buffer.px[<<0, 0>>]

\* C9: after sharpen (emboss) every interior pixel holds, in each of the
\* four channels, the clamped weighted sum of the 3x3 neighbourhood read
\* from the input buffer; on a buffer of one colour it holds that colour.
C9_InteriorWeightedSum ==
    /\ (Dispatched /\ filter_type = "sharpen") =>
          \A p \in InteriorCoords(img.width, img.height) :
              /\ \A c \in 1 .. 4 :
                    processed_img.px[p][c] = SharpenAt(img, p[1], p[2], c)
              /\ IsUniform(img) => processed_img.px[p] = img.px[<<0, 0>>]
    /\ (Dispatched /\ filter_type = "emboss") =>
          \A p \in InteriorCoords(img.width, img.height) :
              /\ \A c \in 1 .. 4 :
                    processed_img.px[p][c] = EmbossAt(img, p[1], p[2], c)
              /\ IsUniform(img) => processed_img.px[p] = img.px[<<0, 0>>]

\* C9 witness: sharpen returned on the 4x4 opaque white buffer, the four
\* interior pixels white and the border zero.
C9_Witness ==
    /\ Returned("sharpen")
    /\ img = Uniform(4, 4, 0)
    /\ \A p \in {<<1, 1>>, <<1, 2>>, <<2, 1>>, <<2, 2>>} :
          processed_img.px[p] = <<255, 255, 255, 255>>
    /\ processed_img.px[<<0, 0>>] = <<0, 0, 0, 0>>

\* C10 as stated: the intermediate buffer of pixelate is max(1, W div 10)
\* wide and max(1, H div 10) high, never of size zero.
C10_IntermediateAtLeastOne ==
    (Dispatched /\ filter_type = "pixelate") =>
        /\ resized_img.width = Max(1, img.width \div 10)
        /\ resized_img.height = Max(1, img.height \div 10)

=============================================================================
